---- MODULE Spec2Model ----
(***************************************************************************)
(* Model of scripts/screenshots/composite.py: the App Store screenshot     *)
(* compositor.  main() walks config["screenshots"] x config["devices"];    *)
(* composite_screenshot() builds one canvas per pair through a fixed       *)
(* sequence of layers and saves it.  The only state shared between pairs   *)
(* is the module-level background cache _bg_cache.                         *)
(*                                                                         *)
(* An image is a record [w, h, layers]: its size and the sequence of the   *)
(* drawing operations that produced its pixels.  Every drawing operation   *)
(* of the program is deterministic, so equal records are pixel-identical   *)
(* images.  Floats of the configuration are percentages (80 for 0.8);      *)
(* int(x) of a non-negative x is the floor.                                *)
(***************************************************************************)
EXTENDS Integers, Sequences, FiniteSets, TLC

VARIABLES
    config,      \* the parsed config.json (load_config)
    rawFiles,    \* RAW_DIR: file name -> "absent" | "corrupt" | "image"
    bgAsset,     \* BG_DIR/background.png: "absent" | "corrupt" | "image"
    bg_cache,    \* _bg_cache: (width, height) -> image
    outputs,     \* OUTPUT_DIR: file name -> saved image (NoImage: no file)
    stdout,      \* the [SKIP] / [OK] lines printed, in order
    status,      \* "running" | "done" | "crashed" (uncaught exception)
    error,       \* the exception that ended the run, or "none"
    si, di,      \* main's position in the two for loops (1-based)
    pc,          \* the statement composite_screenshot is at
    raw,         \* composite_screenshot's local `raw`
    canvas,      \* composite_screenshot's local `canvas`: an object reference
    canvasObj,   \* the image object `canvas` refers to when it is not a cache entry
    subject,     \* phone_with_shadow and the placement computed for it
    bgCalls,     \* what each create_background call did and returned
    vh, vy, vrow, \* apply_accent_vignette's bottom-gradient loop: h, y, alphas drawn
    fcall        \* one call of a drawing function on its own: arguments, loop index, output

vars == <<config, rawFiles, bgAsset, bg_cache, outputs, stdout, status, error,
          si, di, pc, raw, canvas, canvasObj, subject, bgCalls, vh, vy, vrow,
                   fcall>>

(***************************************************************************)
(* Bounds of the model.                                                    *)
(***************************************************************************)
\* Smallest and largest canvas height the bottom-gradient loop is run for.
MinHeight == 10
MaxHeight == 200
\* Width of the device canvases; their heights are derived from it.
CanvasWidth == 10

(***************************************************************************)
(* Inputs: the configuration and the files the run may find.               *)
(***************************************************************************)
ScreenIds == {"01_home", "02_gameplay"}
DeviceKeys == {"iphone", "ipad"}

\* config["devices"]: two devices of the same width and different heights.
Devices ==
    [k \in DeviceKeys |->
        IF k = "iphone" THEN [width |-> CanvasWidth, height |-> 2 * CanvasWidth]
                        ELSE [width |-> CanvasWidth, height |-> CanvasWidth + 6]]

\* The size of the raw capture of a device, when the file is an image.
RawSize ==
    [k \in DeviceKeys |->
        IF k = "iphone" THEN [w |-> 5, h |-> 10] ELSE [w |-> 10, h |-> 16]]

\* config["screenshots"] entries.  A hex colour is the sequence of its characters.
Screenshots ==
    [i \in ScreenIds |->
        IF i = "01_home"
        THEN [id |-> i, title |-> "BREACH", subtitle |-> "Crack the code",
              accent |-> <<"#", "0", "0", "F", "F", "A", "A">>]
        ELSE [id |-> i, title |-> "PLAY", subtitle |-> "Beat the grid",
              accent |-> <<"f", "f", "0", "a", "8", "0">>]]

\* config["layout"]: one layout whose subject fits the canvas with square
\* corners, one whose shadowed subject is wider than the canvas, hangs over its
\* bottom edge and has rounded corners.
Layouts ==
    { [phone_scale |-> 50, corner_radius |-> 0, shadow_offset |-> 1,
       shadow_blur |-> 1, phone_y_offset |-> 20, title_y |-> 5,
       subtitle_y |-> 10, glow_radius |-> 2],
      [phone_scale |-> 80, corner_radius |-> 3, shadow_offset |-> 1,
       shadow_blur |-> 1, phone_y_offset |-> 30, title_y |-> 5,
       subtitle_y |-> 10, glow_radius |-> 3] }

\* config["background"]: with the gradient colours, or without them.
Backgrounds ==
    { [has_gradient |-> TRUE,
       gradient_top |-> <<"#", "0", "a", "0", "a", "1", "a">>,
       gradient_bottom |-> <<"#", "0", "5", "0", "5", "0", "f">>],
      [has_gradient |-> FALSE, gradient_top |-> <<>>, gradient_bottom |-> <<>>] }

\* The orders in which a JSON list or object can hold the elements of S.
RECURSIVE Orders(_)
Orders(S) ==
    IF S = {} THEN {<<>>}
    ELSE UNION { { <<x>> \o t : t \in Orders(S \ {x}) } : x \in S }

FileStates == {"absent", "corrupt", "image"}

\* The file f"{screen_id}_{device_key}.png" is named by the pair.
FileNames == ScreenIds \X DeviceKeys

(***************************************************************************)
(* Images.                                                                 *)
(***************************************************************************)
NoImage == [w |-> 0, h |-> 0, layers |-> <<>>]
NoSubject ==
    [w |-> 0, h |-> 0, img_x |-> 0, img_y |-> 0, paste_x |-> 0, paste_y |-> 0,
     img_w |-> 0, img_h |-> 0, radius |-> 0, blur |-> 0,
     phone_x |-> 0, phone_y |-> 0, phone_rect |-> <<0, 0, 0, 0>>]
LocalRef == [kind |-> "local", key |-> <<0, 0>>]
NoRef == [kind |-> "none", key |-> <<0, 0>>]
CacheRef(key) == [kind |-> "cache", key |-> key]
EmptyCache == [k \in {} |-> NoImage]
NoCall == [args |-> <<>>, i |-> 0, out |-> <<>>]

\* Image.new(mode, (w, h)) followed by the drawing `layer`.
NewLayer(w, h, layer) == [w |-> w, h |-> h, layers |-> <<layer>>]

\* Image.alpha_composite(im1, im2): a new image, im2 over im1.  Pillow raises
\* ValueError when the sizes differ; the result has im1's size.
alpha_composite(im1, im2) ==
    [w |-> im1.w, h |-> im1.h, layers |-> im1.layers \o im2.layers]

(***************************************************************************)
(* hex_to_rgb                                                              *)
(***************************************************************************)
Digits16 == <<"0", "1", "2", "3", "4", "5", "6", "7", "8", "9",
              "a", "b", "c", "d", "e", "f">>

Lower(c) ==
    CASE c = "A" -> "a" [] c = "B" -> "b" [] c = "C" -> "c"
      [] c = "D" -> "d" [] c = "E" -> "e" [] c = "F" -> "f"
      [] OTHER -> c

\* int(c, 16) of one character.
HexDigit(c) == (CHOOSE i \in 1..16 : Digits16[i] = Lower(c)) - 1

\* str.lstrip("#")
RECURSIVE LStripHash(_)
LStripHash(s) ==
    IF s # <<>> /\ Head(s) = "#" THEN LStripHash(Tail(s)) ELSE s

hex_to_rgb(hex_color) ==
    LET h == LStripHash(hex_color)
        byte(i) == 16 * HexDigit(h[i + 1]) + HexDigit(h[i + 2])
    IN  <<byte(0), byte(2), byte(4)>>

(***************************************************************************)
(* create_background                                                       *)
(***************************************************************************)
\* Mutant of cache_key: the cache is keyed by the width alone.
cache_key_width_only(width, height) == <<width, width>>

cache_key(width, height) == <<width, height>>

\* The result of a create_background call: the exception raised ("none" when
\* it returns), the cache after the call, the image returned, whether the
\* returned object is the cache entry itself or a copy of it, and what the
\* call did (cache hit, Image.open + resize of the asset, gradient drawn).
BgResult(raised, cache, ret, is_copy, hit, opened, drawn) ==
    [raised |-> raised, cache |-> cache, ret |-> ret, is_copy |-> is_copy,
     hit |-> hit, opened |-> opened, drawn |-> drawn]

\* Image.open(bg_path).convert("RGBA").resize((width, height), Image.LANCZOS)
asset_background(width, height) ==
    NewLayer(width, height, [layer |-> "background", part |-> "asset_lanczos"])

\* The gradient fallback: one line per row, between the two configured colours.
gradient_background(width, height, cfg) ==
    NewLayer(width, height,
        [layer |-> "background", part |-> "gradient",
         top |-> hex_to_rgb(cfg.background.gradient_top),
         bottom |-> hex_to_rgb(cfg.background.gradient_bottom)])

\* Mutant of create_background: the resolved background is never cached.
create_background_no_store(width, height, cfg, cache, asset) ==
    LET key == cache_key(width, height) IN
    IF key \in DOMAIN cache
    THEN BgResult("none", cache, cache[key], TRUE, TRUE, FALSE, FALSE)
    ELSE IF asset # "absent"
    THEN IF asset = "corrupt"
         THEN BgResult("UnidentifiedImageError", cache, NoImage, TRUE,
                       FALSE, TRUE, FALSE)
         ELSE BgResult("none", cache, asset_background(width, height), TRUE,
                       FALSE, TRUE, FALSE)
    ELSE IF ~cfg.background.has_gradient
    THEN BgResult("KeyError", cache, NoImage, TRUE, FALSE, FALSE, FALSE)
    ELSE BgResult("none", cache, gradient_background(width, height, cfg), TRUE,
                  FALSE, FALSE, TRUE)

\* Mutant of create_background: the cached object itself is returned, not a copy.
create_background_no_copy(width, height, cfg, cache, asset) ==
    LET key == cache_key(width, height) IN
    IF key \in DOMAIN cache
    THEN BgResult("none", cache, cache[key], FALSE, TRUE, FALSE, FALSE)
    ELSE IF asset # "absent"
    THEN IF asset = "corrupt"
         THEN BgResult("UnidentifiedImageError", cache, NoImage, TRUE,
                       FALSE, TRUE, FALSE)
         ELSE LET bg == asset_background(width, height)
              IN  BgResult("none", (key :> bg) @@ cache, bg, FALSE,
                           FALSE, TRUE, FALSE)
    ELSE IF ~cfg.background.has_gradient
    THEN BgResult("KeyError", cache, NoImage, TRUE, FALSE, FALSE, FALSE)
    ELSE LET bg == gradient_background(width, height, cfg)
         IN  BgResult("none", (key :> bg) @@ cache, bg, FALSE,
                      FALSE, FALSE, TRUE)

\* Mutant of create_background: the new image is cached as soon as it is
\* allocated, before the gradient colours are read.
create_background_store_first(width, height, cfg, cache, asset) ==
    LET key == cache_key(width, height) IN
    IF key \in DOMAIN cache
    THEN BgResult("none", cache, cache[key], TRUE, TRUE, FALSE, FALSE)
    ELSE IF asset # "absent"
    THEN IF asset = "corrupt"
         THEN BgResult("UnidentifiedImageError", cache, NoImage, TRUE,
                       FALSE, TRUE, FALSE)
         ELSE LET bg == asset_background(width, height)
              IN  BgResult("none", (key :> bg) @@ cache, bg, TRUE,
                           FALSE, TRUE, FALSE)
    ELSE IF ~cfg.background.has_gradient
    THEN BgResult("KeyError", (key :> [w |-> width, h |-> height, layers |-> <<>>]) @@ cache,
                  NoImage, TRUE, FALSE, FALSE, FALSE)
    ELSE LET bg == gradient_background(width, height, cfg)
         IN  BgResult("none", (key :> bg) @@ cache, bg, TRUE,
                      FALSE, FALSE, TRUE)

\* create_background: cache hit; else the shared asset if the file exists;
\* else the gradient, whose colours are read from the configuration after the
\* image is allocated and before it is cached.  Image.open raises on a file
\* that is no image; config["background"]["gradient_top"] raises KeyError.
create_background(width, height, cfg, cache, asset) ==
    LET key == cache_key(width, height) IN
    IF key \in DOMAIN cache
    THEN BgResult("none", cache, cache[key], TRUE, TRUE, FALSE, FALSE)
    ELSE IF asset # "absent"
    THEN IF asset = "corrupt"
         THEN BgResult("UnidentifiedImageError", cache, NoImage, TRUE,
                       FALSE, TRUE, FALSE)
         ELSE LET bg == asset_background(width, height)
              IN  BgResult("none", (key :> bg) @@ cache, bg, TRUE,
                           FALSE, TRUE, FALSE)
    ELSE IF ~cfg.background.has_gradient
    THEN BgResult("KeyError", cache, NoImage, TRUE, FALSE, FALSE, FALSE)
    ELSE LET bg == gradient_background(width, height, cfg)
         IN  BgResult("none", (key :> bg) @@ cache, bg, TRUE,
                      FALSE, FALSE, TRUE)

(***************************************************************************)
(* Effect layers.  Each builds a transparent layer of the canvas's size    *)
(* and returns Image.alpha_composite(canvas, layer): a new image.          *)
(***************************************************************************)
\* int(255 * opacity * t * t) with t = max(0.0, (y - h * 0.4) / (h * 0.6)):
\* t = (5y - 2h) / 3h when that is positive, so the alpha is the floor of
\* 255 * opacity * (5y - 2h)^2 / (9 h^2); opacity is in hundredths.
vignette_alpha(h, y, opacity) ==
    IF 5 * y - 2 * h <= 0 THEN 0
    ELSE (255 * opacity * (5 * y - 2 * h) * (5 * y - 2 * h)) \div (900 * h * h)

\* The default of apply_accent_vignette's `opacity`, in hundredths.
VignetteOpacity == 18

apply_accent_vignette(im, accent) ==
    LET vignette == NewLayer(im.w, im.h,
                        [layer |-> "vignette", part |-> "bottom_gradient",
                         accent |-> accent, opacity |-> VignetteOpacity])
        edge_layer == NewLayer(im.w, im.h,
                        [layer |-> "vignette", part |-> "edge",
                         accent |-> accent, opacity |-> VignetteOpacity])
    IN  alpha_composite(alpha_composite(im, vignette), edge_layer)

\* The defaults of apply_scan_lines: opacity in hundredths, spacing in rows.
ScanOpacity == 10
ScanSpacing == 4

apply_scan_lines(im) ==
    LET scan == NewLayer(im.w, im.h,
                    [layer |-> "scan_lines", part |-> "lines",
                     alpha |-> (255 * ScanOpacity) \div 100,
                     spacing |-> ScanSpacing])
    IN  alpha_composite(im, scan)

apply_accent_glow(im, accent, phone_rect) ==
    LET px == phone_rect[1]
        py == phone_rect[2]
        pw == phone_rect[3]
        ph == phone_rect[4]
        glow == NewLayer(im.w, im.h,
                    [layer |-> "accent_glow", part |-> "ellipses_blurred",
                     accent |-> accent,
                     cx |-> px + pw \div 2, cy |-> py + ph \div 2,
                     glow_rx |-> (pw * 9) \div 10,
                     glow_ry |-> (ph * 7) \div 10])
    IN  alpha_composite(im, glow)

(***************************************************************************)
(* The subject: resize, rounded corners, drop shadow.                      *)
(***************************************************************************)
\* Mutant of rounded_mask: the whole rectangle is filled, corners included.
rounded_mask_square(w, h, radius, x, y) ==
    IF x < 0 \/ y < 0 \/ x >= w \/ y >= h THEN 0 ELSE 255

\* The alpha add_rounded_corners gives pixel (x, y) of a w x h image: the
\* mask is 0 with rounded_rectangle([(0, 0), (w, h)], radius, fill=255) drawn
\* on it.  Radius 0 is the whole rectangle; otherwise a pixel of a corner
\* square is filled when it lies in the quarter disc of that corner.
rounded_mask(w, h, radius, x, y) ==
    LET x1 == w
        y1 == h
        inDisc(cx, cy) ==
            (x - cx) * (x - cx) + (y - cy) * (y - cy) <= radius * radius
    IN  IF x < 0 \/ y < 0 \/ x >= w \/ y >= h THEN 0
        ELSE IF radius = 0 THEN 255
        ELSE IF x < radius /\ y < radius
             THEN (IF inDisc(radius, radius) THEN 255 ELSE 0)
        ELSE IF x > x1 - radius /\ y < radius
             THEN (IF inDisc(x1 - radius, radius) THEN 255 ELSE 0)
        ELSE IF x < radius /\ y > y1 - radius
             THEN (IF inDisc(radius, y1 - radius) THEN 255 ELSE 0)
        ELSE IF x > x1 - radius /\ y > y1 - radius
             THEN (IF inDisc(x1 - radius, y1 - radius) THEN 255 ELSE 0)
        ELSE 255

\* add_rounded_corners: a copy of img with the mask as its alpha.
add_rounded_corners(img, radius) ==
    [w |-> img.w, h |-> img.h, layers |-> img.layers, radius |-> radius]

\* Mutant of add_drop_shadow: the subject is pasted where the shadow layer is.
add_drop_shadow_on_shadow(img, offset, blur) ==
    [w |-> img.w + blur * 4, h |-> img.h + blur * 4,
     paste_x |-> blur * 2 + offset, paste_y |-> blur * 2 + offset,
     img_x |-> blur * 2 + offset, img_y |-> blur * 2 + offset,
     img_w |-> img.w, img_h |-> img.h, radius |-> img.radius, blur |-> blur,
     layers |-> img.layers]

\* add_drop_shadow: the padded image, where the shadow layer and the subject
\* were pasted in it, and the subject pasted.
add_drop_shadow(img, offset, blur) ==
    [w |-> img.w + blur * 4, h |-> img.h + blur * 4,
     paste_x |-> blur * 2 + offset, paste_y |-> blur * 2 + offset,
     img_x |-> blur * 2, img_y |-> blur * 2,
     img_w |-> img.w, img_h |-> img.h, radius |-> img.radius, blur |-> blur,
     layers |-> img.layers]

\* composite_screenshot's placement of the subject on a canvas of the given
\* width and height.
place_subject(rawImg, width, height, layout) ==
    LET phone_scale == layout.phone_scale
        phone_w == (width * phone_scale) \div 100
        phone_h == (rawImg.h * phone_w) \div rawImg.w
        raw_scaled == [w |-> phone_w, h |-> phone_h,
                       layers |-> rawImg.layers \o
                                  <<[layer |-> "subject", part |-> "resize_lanczos"]>>]
        corner_radius == (layout.corner_radius * phone_scale) \div 100
        raw_rounded == add_rounded_corners(raw_scaled, corner_radius)
        shadow_offset == layout.shadow_offset
        shadow_blur == layout.shadow_blur
        phone_with_shadow == add_drop_shadow(raw_rounded, shadow_offset, shadow_blur)
        phone_x == (width - phone_with_shadow.w) \div 2
        phone_y == (height * layout.phone_y_offset) \div 100
        actual_phone_x == phone_x + shadow_blur * 2
        actual_phone_y == phone_y + shadow_blur * 2
    IN  [w |-> phone_with_shadow.w, h |-> phone_with_shadow.h,
         img_x |-> phone_with_shadow.img_x, img_y |-> phone_with_shadow.img_y,
         paste_x |-> phone_with_shadow.paste_x,
         paste_y |-> phone_with_shadow.paste_y,
         img_w |-> phone_with_shadow.img_w, img_h |-> phone_with_shadow.img_h,
         radius |-> phone_with_shadow.radius, blur |-> phone_with_shadow.blur,
         layers |-> phone_with_shadow.layers,
         phone_x |-> phone_x, phone_y |-> phone_y,
         phone_rect |-> <<actual_phone_x, actual_phone_y, phone_w, phone_h>>]

\* Mutant of paste_subject: the canvas grows to hold the whole pasted image.
paste_subject_grow(im, s) ==
    [w |-> IF s.phone_x + s.w > im.w THEN s.phone_x + s.w ELSE im.w,
     h |-> IF s.phone_y + s.h > im.h THEN s.phone_y + s.h ELSE im.h,
     layers |-> Append(im.layers,
                  [layer |-> "subject", part |-> "paste",
                   at |-> <<s.phone_x, s.phone_y>>, source |-> s.layers,
                   size |-> <<s.w, s.h>>, radius |-> s.radius])]

\* canvas.paste(phone_with_shadow, (phone_x, phone_y), phone_with_shadow): the
\* canvas keeps its size; pixels of the source outside it are dropped.
paste_subject(im, s) ==
    [w |-> im.w, h |-> im.h,
     layers |-> Append(im.layers,
                  [layer |-> "subject", part |-> "paste",
                   at |-> <<s.phone_x, s.phone_y>>, source |-> s.layers,
                   size |-> <<s.w, s.h>>, radius |-> s.radius])]

\* Whether canvas pixel (x, y) shows a pixel of the subject after the paste:
\* the pixel of phone_with_shadow that lands there is one add_drop_shadow
\* pasted from the rounded subject, through the subject's own alpha.
subject_at(im, s, x, y) ==
    /\ 0 <= x /\ x < im.w /\ 0 <= y /\ y < im.h
    /\ rounded_mask(s.img_w, s.img_h, s.radius,
                    x - s.phone_x - s.img_x, y - s.phone_y - s.img_y) = 255

(***************************************************************************)
(* render_glow_text: blurred glow pass, then crisp pass, both in place.    *)
(***************************************************************************)
render_glow_text(im, text, position, color, font, glow_radius) ==
    LET glow == NewLayer(im.w, im.h,
                    [layer |-> "glow_text", part |-> "glow", text |-> text,
                     position |-> position, color |-> color, font |-> font,
                     glow_radius |-> glow_radius])
        pasted == alpha_composite(im, glow)
    IN  [w |-> pasted.w, h |-> pasted.h,
         layers |-> Append(pasted.layers,
                      [layer |-> "glow_text", part |-> "crisp", text |-> text,
                       position |-> position, color |-> color, font |-> font])]

\* Image.open(raw_path).convert("RGBA") of a raw file that is an image.
open_image(name, key) ==
    [w |-> RawSize[key].w, h |-> RawSize[key].h,
     layers |-> <<[layer |-> "subject", part |-> "raw", file |-> name]>>]

\* The title call of render_glow_text: font int(width * 0.065), full radius.
draw_title(im, scfg, dev, layout) ==
    render_glow_text(im, scfg.title,
        <<dev.width \div 2, (dev.height * layout.title_y) \div 100>>,
        hex_to_rgb(scfg.accent), (dev.width * 65) \div 1000, layout.glow_radius)

\* The subtitle call: white, font int(width * 0.035), half the radius.
draw_subtitle(im, scfg, dev, layout) ==
    render_glow_text(im, scfg.subtitle,
        <<dev.width \div 2, (dev.height * layout.subtitle_y) \div 100>>,
        <<255, 255, 255>>, (dev.width * 35) \div 1000, layout.glow_radius \div 2)

(***************************************************************************)
(* composite_screenshot and main, statement by statement.                  *)
(***************************************************************************)
\* The pair main's loops are at.
sc == config.screenshots[si]
device_key == config.device_order[di]
device == config.devices[device_key]
file_name == <<sc.id, device_key>>
accent == hex_to_rgb(sc.accent)

\* The image object the local `canvas` refers to.
Deref(ref, cache, obj) == IF ref.kind = "cache" THEN cache[ref.key] ELSE obj
canvasImage == Deref(canvas, bg_cache, canvasObj)

\* Mutant of stage_after: the subject is pasted before the accent glow.
stage_after_paste_first(stage) ==
    CASE stage = "create_background" -> "apply_accent_vignette"
      [] stage = "apply_accent_vignette" -> "apply_scan_lines"
      [] stage = "apply_scan_lines" -> "process_subject"
      [] stage = "process_subject" -> "paste"
      [] stage = "paste" -> "apply_accent_glow"
      [] stage = "apply_accent_glow" -> "title"
      [] stage = "title" -> "subtitle"
      [] stage = "subtitle" -> "export"

\* The statements of composite_screenshot after the raw image is loaded, in
\* the order of the source.
stage_after(stage) ==
    CASE stage = "create_background" -> "apply_accent_vignette"
      [] stage = "apply_accent_vignette" -> "apply_scan_lines"
      [] stage = "apply_scan_lines" -> "process_subject"
      [] stage = "process_subject" -> "apply_accent_glow"
      [] stage = "apply_accent_glow" -> "paste"
      [] stage = "paste" -> "title"
      [] stage = "title" -> "subtitle"
      [] stage = "subtitle" -> "export"

Running(stage) == status = "running" /\ pc = stage

\* Mutant of output_name: the device key is left out of the output path.
output_name_no_device(screen_id, key) == <<screen_id, "iphone">>

\* output_path = OUTPUT_DIR / f"{screen_id}_{device_key}.png"
output_name(screen_id, key) == <<screen_id, key>>

\* An exception nothing catches: the interpreter prints the traceback and exits.
Raise(exc) ==
    /\ status' = "crashed"
    /\ error' = exc

\* composite_screenshot returns: its locals die and main's loops advance.
Return ==
    /\ pc' = "main"
    /\ raw' = NoImage
    /\ canvas' = NoRef
    /\ canvasObj' = NoImage
    /\ subject' = NoSubject
    /\ IF di < Len(config.device_order)
       THEN di' = di + 1 /\ si' = si
       ELSE di' = 1 /\ si' = si + 1

\* main: the two for loops call composite_screenshot for the next pair, or end.
main ==
    /\ Running("main")
    /\ IF si <= Len(config.screenshots)
       THEN pc' = "check_raw" /\ UNCHANGED status
       ELSE status' = "done" /\ UNCHANGED pc
    /\ UNCHANGED <<config, rawFiles, bgAsset, bg_cache, outputs, stdout, error,
                   si, di, raw, canvas, canvasObj, subject, bgCalls, vh, vy, vrow,
                   fcall>>

\* Mutant of check_raw: the background is resolved before the raw file is
\* looked for.
check_raw_after_background ==
    /\ Running("check_raw")
    /\ IF rawFiles[file_name] = "absent"
       THEN LET r == create_background(device.width, device.height, config,
                                       bg_cache, bgAsset)
            IN  /\ bg_cache' = r.cache
                /\ bgCalls' = Append(bgCalls,
                                 [key |-> <<device.width, device.height>>,
                                  raised |-> r.raised, hit |-> r.hit,
                                  opened |-> r.opened, drawn |-> r.drawn,
                                  ret |-> r.ret])
                /\ stdout' = Append(stdout, <<"SKIP", file_name>>)
                /\ Return
       ELSE /\ pc' = "open_raw"
            /\ UNCHANGED <<stdout, si, di, raw, canvas, canvasObj, subject,
                           bg_cache, bgCalls>>
    /\ UNCHANGED <<config, rawFiles, bgAsset, outputs, status, error,
                   vh, vy, vrow, fcall>>

\* if not raw_path.exists(): print [SKIP]; return
check_raw ==
    /\ Running("check_raw")
    /\ IF rawFiles[file_name] = "absent"
       THEN /\ stdout' = Append(stdout, <<"SKIP", file_name>>)
            /\ Return
       ELSE /\ pc' = "open_raw"
            /\ UNCHANGED <<stdout, si, di, raw, canvas, canvasObj, subject>>
    /\ UNCHANGED <<config, rawFiles, bgAsset, bg_cache, outputs, status, error,
                   bgCalls, vh, vy, vrow,
                   fcall>>

\* raw = Image.open(raw_path).convert("RGBA")
open_raw ==
    /\ Running("open_raw")
    /\ IF rawFiles[file_name] = "corrupt"
       THEN /\ Raise("UnidentifiedImageError")
            /\ UNCHANGED <<pc, raw>>
       ELSE /\ raw' = open_image(file_name, device_key)
            /\ pc' = "create_background"
            /\ UNCHANGED <<status, error>>
    /\ UNCHANGED <<config, rawFiles, bgAsset, bg_cache, outputs, stdout, si, di,
                   canvas, canvasObj, subject, bgCalls, vh, vy, vrow,
                   fcall>>

\* canvas = create_background(width, height, config)
step_create_background ==
    /\ Running("create_background")
    /\ LET r == create_background(device.width, device.height, config,
                                  bg_cache, bgAsset)
           key == cache_key(device.width, device.height)
       IN  /\ bg_cache' = r.cache
           /\ bgCalls' = Append(bgCalls,
                            [key |-> <<device.width, device.height>>,
                             raised |-> r.raised, hit |-> r.hit,
                             opened |-> r.opened, drawn |-> r.drawn,
                             ret |-> r.ret])
           /\ IF r.raised # "none"
              THEN /\ Raise(r.raised)
                   /\ UNCHANGED <<pc, canvas, canvasObj>>
              ELSE /\ pc' = stage_after("create_background")
                   /\ UNCHANGED <<status, error>>
                   /\ IF r.is_copy
                      THEN canvas' = LocalRef /\ canvasObj' = r.ret
                      ELSE canvas' = CacheRef(key) /\ canvasObj' = NoImage
    /\ UNCHANGED <<config, rawFiles, bgAsset, outputs, stdout, si, di, raw,
                   subject, vh, vy, vrow,
                   fcall>>

\* canvas = f(canvas): the local is rebound to the new image f returns.
Rebind(stage, im) ==
    /\ Running(stage)
    /\ canvas' = LocalRef
    /\ canvasObj' = im
    /\ pc' = stage_after(stage)
    /\ UNCHANGED <<config, rawFiles, bgAsset, bg_cache, outputs, stdout, status,
                   error, si, di, raw, subject, bgCalls, vh, vy, vrow,
                   fcall>>

\* f(canvas) mutating the object `canvas` refers to, which may be shared.
InPlace(stage, im) ==
    /\ Running(stage)
    /\ IF canvas.kind = "cache"
       THEN bg_cache' = [bg_cache EXCEPT ![canvas.key] = im]
            /\ UNCHANGED canvasObj
       ELSE canvasObj' = im /\ UNCHANGED bg_cache
    /\ pc' = stage_after(stage)
    /\ UNCHANGED <<config, rawFiles, bgAsset, outputs, stdout, status, error,
                   si, di, raw, canvas, subject, bgCalls, vh, vy, vrow,
                   fcall>>

step_apply_accent_vignette ==
    Rebind("apply_accent_vignette", apply_accent_vignette(canvasImage, accent))

step_apply_scan_lines ==
    Rebind("apply_scan_lines", apply_scan_lines(canvasImage))

\* phone_scale ... phone_rect: the subject is scaled, rounded, shadowed, placed.
process_subject ==
    /\ Running("process_subject")
    /\ subject' = place_subject(raw, device.width, device.height, config.layout)
    /\ pc' = stage_after("process_subject")
    /\ UNCHANGED <<config, rawFiles, bgAsset, bg_cache, outputs, stdout, status,
                   error, si, di, raw, canvas, canvasObj, bgCalls, vh, vy, vrow,
                   fcall>>

step_apply_accent_glow ==
    Rebind("apply_accent_glow",
           apply_accent_glow(canvasImage, accent, subject.phone_rect))

\* canvas.paste(phone_with_shadow, (phone_x, phone_y), phone_with_shadow)
paste ==
    InPlace("paste", paste_subject(canvasImage, subject))

\* render_glow_text(canvas, screenshot_cfg["title"], title_pos, accent, ...)
title ==
    InPlace("title", draw_title(canvasImage, sc, device, config.layout))

\* render_glow_text(canvas, screenshot_cfg["subtitle"], subtitle_pos, white, ...)
subtitle ==
    InPlace("subtitle", draw_subtitle(canvasImage, sc, device, config.layout))

\* canvas.convert("RGB").save(output_path); print [OK]; return
export ==
    /\ Running("export")
    /\ outputs' = [outputs EXCEPT ![output_name(sc.id, device_key)] = canvasImage]
    /\ stdout' = Append(stdout, <<"OK", output_name(sc.id, device_key)>>)
    /\ Return
    /\ UNCHANGED <<config, rawFiles, bgAsset, bg_cache, status, error, bgCalls,
                   vh, vy, vrow,
                   fcall>>

Configs ==
    { [screenshots |-> [i \in 1..Len(so) |-> Screenshots[so[i]]],
       devices |-> Devices, device_order |-> do, layout |-> l, background |-> b] :
      so \in Orders(ScreenIds), do \in Orders(DeviceKeys),
      l \in Layouts, b \in Backgrounds }

Init ==
    /\ config \in Configs
    /\ rawFiles \in [FileNames -> FileStates]
    /\ bgAsset \in FileStates
    /\ bg_cache = EmptyCache
    /\ outputs = [f \in FileNames |-> NoImage]
    /\ stdout = <<>>
    /\ status = "running"
    /\ error = "none"
    /\ si = 1
    /\ di = 1
    /\ pc = "main"
    /\ raw = NoImage
    /\ canvas = NoRef
    /\ canvasObj = NoImage
    /\ subject = NoSubject
    /\ bgCalls = <<>>
    /\ vh = 0
    /\ vy = 0
    /\ vrow = <<>>
    /\ fcall = NoCall

Next ==
    \/ main
    \/ check_raw
    \/ open_raw
    \/ step_create_background
    \/ step_apply_accent_vignette
    \/ step_apply_scan_lines
    \/ process_subject
    \/ step_apply_accent_glow
    \/ paste
    \/ title
    \/ subtitle
    \/ export

Spec == Init /\ [][Next]_vars

(***************************************************************************)
(* Vocabulary of the properties.                                           *)
(***************************************************************************)
Range(seq) == { seq[i] : i \in 1..Len(seq) }

Terminated == status \in {"done", "crashed"}

\* The place of a pair in main's visiting order, and main's own place.
Pos(f) ==
    LET i == CHOOSE i \in 1..Len(config.screenshots) : config.screenshots[i].id = f[1]
        j == CHOOSE j \in 1..Len(config.device_order) : config.device_order[j] = f[2]
    IN  (i - 1) * Len(config.device_order) + j
CurPos == (si - 1) * Len(config.device_order) + di

\* composite_screenshot was called for the pair / has returned for it.
Called(f) == Pos(f) < CurPos \/ (Pos(f) = CurPos /\ pc # "main")
Returned(f) == Pos(f) < CurPos

\* The statements at which `canvas` is bound.
CanvasStages ==
    {"apply_accent_vignette", "apply_scan_lines", "process_subject",
     "apply_accent_glow", "paste", "title", "subtitle", "export"}
HasCanvas == status = "running" /\ pc \in CanvasStages

\* The layers of an image in the order they were applied, each named once:
\* a glow-text layer is named by its text.
LayerName(l) == IF l.layer = "glow_text" THEN l.text ELSE l.layer
RECURSIVE LayerOrder(_)
LayerOrder(layers) ==
    IF layers = <<>> THEN <<>>
    ELSE LET rest == LayerOrder(Tail(layers))
             name == LayerName(Head(layers))
         IN  IF rest # <<>> /\ Head(rest) = name THEN rest ELSE <<name>> \o rest

FixedOrder(scfg) ==
    <<"background", "vignette", "scan_lines", "accent_glow", "subject",
      scfg.title, scfg.subtitle>>

IsPrefix(s, t) == Len(s) <= Len(t) /\ s = SubSeq(t, 1, Len(s))

(***************************************************************************)
(* C1: every canvas that reaches the export step, and every saved image,   *)
(* carries the seven layers background, vignette, scan lines, accent glow, *)
(* subject, title, subtitle in exactly that order, each once; at every     *)
(* earlier statement the canvas carries a prefix of that order.            *)
(***************************************************************************)
C1_LayerOrderFixed ==
    /\ HasCanvas => IsPrefix(LayerOrder(canvasImage.layers), FixedOrder(sc))
    /\ Running("export") => LayerOrder(canvasImage.layers) = FixedOrder(sc)
    /\ \A f \in FileNames :
          outputs[f] # NoImage =>
              LayerOrder(outputs[f].layers) = FixedOrder(Screenshots[f[1]])

C1_Witness ==
    /\ Running("export")
    /\ LayerOrder(canvasImage.layers) = FixedOrder(sc)
    /\ \E f \in FileNames : outputs[f] # NoImage

(***************************************************************************)
(* C2 as claimed: when the run has ended, every pair main called           *)
(* composite_screenshot for has an output file if and only if its raw file *)
(* exists.                                                                 *)
(***************************************************************************)
C2_OutputIffRawExists ==
    Terminated =>
        \A f \in FileNames :
            Called(f) => ((outputs[f] # NoImage) <=> (rawFiles[f] # "absent"))

(***************************************************************************)
(* C2 amended: for every pair whose composite_screenshot call has          *)
(* returned, an output file exists iff the raw file exists; an absent raw  *)
(* file is reported [SKIP], writes nothing, and the loop goes on, so a run *)
(* that completes has visited every pair.  A run ends early only at a pair *)
(* whose raw file exists, and that pair and the pairs after it have no     *)
(* output.                                                                 *)
(***************************************************************************)
C2_OutputIffRawExistsWhenReturned ==
    \A f \in FileNames :
        /\ Returned(f) => ((outputs[f] # NoImage) <=> (rawFiles[f] # "absent"))
        /\ (Returned(f) /\ rawFiles[f] = "absent") =>
               <<"SKIP", f>> \in Range(stdout) /\ <<"OK", f>> \notin Range(stdout)
        /\ ~Returned(f) => outputs[f] = NoImage
        /\ status = "done" => Returned(f)
        /\ (status = "crashed" /\ Pos(f) = CurPos) => rawFiles[f] # "absent"

C2_Witness ==
    /\ status = "done"
    /\ \E f, g \in FileNames :
          /\ rawFiles[f] = "absent" /\ <<"SKIP", f>> \in Range(stdout)
          /\ Pos(f) < Pos(g) /\ outputs[g] # NoImage

(***************************************************************************)
(* C3 as claimed: a raw file that exists but cannot be decoded fails its   *)
(* own pair only: the run is not ended by it, the pair gets no output and, *)
(* once its call has returned, a failure report that is not the [SKIP] of  *)
(* a missing file.                                                         *)
(***************************************************************************)
C3_DecodeFailureIsPerPair ==
    \A f \in FileNames :
        (rawFiles[f] = "corrupt" /\ Called(f)) =>
            /\ ~(status = "crashed" /\ Pos(f) = CurPos)
            /\ outputs[f] = NoImage
            /\ Returned(f) => <<"FAILED", f>> \in Range(stdout)

(***************************************************************************)
(* C4: of any two create_background calls for the same (width, height),    *)
(* whatever was resolved or composited in between, the later one returns   *)
(* an image identical to the earlier one's and is a cache hit: it neither  *)
(* opens the asset nor draws the gradient.  The first call for a size is   *)
(* the one that resolves it.                                               *)
(***************************************************************************)
C4_SecondResolveIsCacheHit ==
    \A j \in 1..Len(bgCalls) :
        LET earlier == { i \in 1..(j - 1) : bgCalls[i].key = bgCalls[j].key } IN
        /\ \A i \in earlier :
              /\ bgCalls[j].raised = "none"
              /\ bgCalls[j].ret = bgCalls[i].ret
              /\ bgCalls[j].hit /\ ~bgCalls[j].opened /\ ~bgCalls[j].drawn
        /\ earlier = {} =>
              /\ ~bgCalls[j].hit
              /\ bgCalls[j].raised = "none" => (bgCalls[j].opened \/ bgCalls[j].drawn)

C4_Witness ==
    \E i, k, j \in 1..Len(bgCalls) :
        /\ i < k /\ k < j
        /\ bgCalls[i].key = bgCalls[j].key /\ bgCalls[k].key # bgCalls[i].key
        /\ bgCalls[j].hit /\ bgCalls[j].ret = bgCalls[i].ret
        /\ bgCalls[i].drawn

(***************************************************************************)
(* C5: the background cache is write-once per key: a step never removes or *)
(* changes an entry that exists, and the object `canvas` is bound to is    *)
(* never a cache entry, so no in-place mutation can reach one.             *)
(***************************************************************************)
C5_CacheWriteOnce ==
    [][ /\ \A k \in DOMAIN bg_cache :
              k \in DOMAIN bg_cache' /\ bg_cache'[k] = bg_cache[k]
        /\ canvas'.kind # "cache" ]_vars

C5_Witness ==
    /\ Running("export")
    /\ cache_key(device.width, device.height) \in DOMAIN bg_cache
    /\ bgCalls[Len(bgCalls)].hit
    /\ canvasImage # bg_cache[cache_key(device.width, device.height)]
    /\ Cardinality(DOMAIN bg_cache) = 2

(***************************************************************************)
(* C6: with no gradient colours in the configuration and no background     *)
(* asset, the first create_background call raises KeyError and ends the    *)
(* run at that pair: create_background never returns, no output file is    *)
(* ever written, the cache stays empty, and no step follows the failure.   *)
(***************************************************************************)
C6_MissingGradientIsFatal ==
    (~config.background.has_gradient /\ bgAsset = "absent") =>
        /\ bg_cache = EmptyCache
        /\ \A f \in FileNames : outputs[f] = NoImage
        /\ ~HasCanvas
        /\ bgCalls # <<>> =>
              /\ Len(bgCalls) = 1
              /\ bgCalls[1].raised = "KeyError"
              /\ status = "crashed" /\ error = "KeyError"
              /\ ~ENABLED Next

C6_Witness ==
    /\ ~config.background.has_gradient /\ bgAsset = "absent"
    /\ status = "crashed" /\ error = "KeyError"
    /\ stdout # <<>>
    /\ \E f \in FileNames : ~Called(f) /\ rawFiles[f] = "image"

(***************************************************************************)
(* C7: the image saved for a pair is the image composite_screenshot        *)
(* produces for that pair alone, from an empty cache, whatever pairs were  *)
(* processed before it and in whatever order the configuration lists the   *)
(* screenshots and devices.                                                *)
(***************************************************************************)
\* composite_screenshot for one pair in a fresh process.
composite_alone(f) ==
    LET scfg == Screenshots[f[1]]
        dev == config.devices[f[2]]
        acc == hex_to_rgb(scfg.accent)
        bg == create_background(dev.width, dev.height, config, EmptyCache, bgAsset).ret
        s == place_subject(open_image(f, f[2]), dev.width, dev.height, config.layout)
        lit == apply_accent_glow(
                   apply_scan_lines(apply_accent_vignette(bg, acc)), acc, s.phone_rect)
    IN  draw_subtitle(draw_title(paste_subject(lit, s), scfg, dev, config.layout),
                      scfg, dev, config.layout)

C7_PairsIndependent ==
    \A f \in FileNames : outputs[f] # NoImage => outputs[f] = composite_alone(f)

C7_Witness ==
    /\ status = "done"
    /\ \A f \in FileNames : outputs[f] # NoImage /\ outputs[f] = composite_alone(f)
    /\ \E i \in 1..Len(bgCalls) : bgCalls[i].hit
    /\ config.device_order[1] = "ipad"

(***************************************************************************)
(* C8: whenever `canvas` is bound, from the return of create_background to *)
(* the export, the canvas has exactly the width and height of the device   *)
(* profile, and so has every saved image.                                  *)
(***************************************************************************)
C8_CanvasHasDeviceSize ==
    /\ HasCanvas =>
          canvasImage.w = device.width /\ canvasImage.h = device.height
    /\ \A i \in 1..Len(bgCalls) :
          bgCalls[i].raised = "none" =>
              <<bgCalls[i].ret.w, bgCalls[i].ret.h>> = bgCalls[i].key
    /\ \A f \in FileNames :
          outputs[f] # NoImage =>
              /\ outputs[f].w = config.devices[f[2]].width
              /\ outputs[f].h = config.devices[f[2]].height

\* The subject has been pasted, is wider than the canvas and hangs over its
\* left and bottom edges; the background came from the cache.
C8_Witness ==
    /\ Running("title")
    /\ subject.w > device.width
    /\ subject.phone_x < 0
    /\ subject.phone_y + subject.h > device.height
    /\ bgCalls[Len(bgCalls)].hit
    /\ canvasImage.w = device.width /\ canvasImage.h = device.height

(***************************************************************************)
(* C9 as claimed: once the subject is pasted, the rectangle passed to the  *)
(* accent glow has its origin at the paste position plus 2 * shadow_blur   *)
(* and the size of the scaled subject, its four corner pixels are subject  *)
(* pixels of the canvas, and the pixels just outside the corners are not.  *)
(***************************************************************************)
AfterPaste == status = "running" /\ pc \in {"title", "subtitle", "export"}

C9_RectCornersAreSubjectPixels ==
    AfterPaste =>
        LET x0 == subject.phone_rect[1]
            y0 == subject.phone_rect[2]
            x1 == x0 + subject.phone_rect[3] - 1
            y1 == y0 + subject.phone_rect[4] - 1
            on(x, y) == subject_at(canvasImage, subject, x, y)
        IN  /\ x0 = subject.phone_x + 2 * subject.blur
            /\ y0 = subject.phone_y + 2 * subject.blur
            /\ subject.phone_rect[3] = subject.img_w
            /\ subject.phone_rect[4] = subject.img_h
            /\ on(x0, y0) /\ on(x1, y0) /\ on(x0, y1) /\ on(x1, y1)
            /\ ~on(x0 - 1, y0) /\ ~on(x0, y0 - 1) /\ ~on(x1 + 1, y0) /\ ~on(x1, y0 - 1)
            /\ ~on(x0 - 1, y1) /\ ~on(x0, y1 + 1) /\ ~on(x1 + 1, y1) /\ ~on(x1, y1 + 1)

(***************************************************************************)
(* C9 amended: once the subject is pasted, the rectangle passed to the     *)
(* accent glow has its origin at the paste position plus 2 * shadow_blur   *)
(* and the size of the scaled subject; every subject pixel of the canvas   *)
(* lies inside it, and a canvas pixel inside it is a subject pixel exactly *)
(* where the rounded-corner mask of the subject is opaque.                 *)
(***************************************************************************)
C9_RectBoundsSubjectPixels ==
    AfterPaste =>
        LET x0 == subject.phone_rect[1]
            y0 == subject.phone_rect[2]
            pw == subject.phone_rect[3]
            ph == subject.phone_rect[4]
            inRect(x, y) == x0 <= x /\ x < x0 + pw /\ y0 <= y /\ y < y0 + ph
        IN  /\ x0 = subject.phone_x + 2 * subject.blur
            /\ y0 = subject.phone_y + 2 * subject.blur
            /\ pw = (device.width * config.layout.phone_scale) \div 100
            /\ ph = (raw.h * pw) \div raw.w
            /\ \A x \in (-1)..canvasImage.w, y \in (-1)..canvasImage.h :
                  subject_at(canvasImage, subject, x, y) <=>
                      /\ 0 <= x /\ x < canvasImage.w
                      /\ 0 <= y /\ y < canvasImage.h
                      /\ inRect(x, y)
                      /\ rounded_mask(pw, ph, subject.radius, x - x0, y - y0) = 255

\* The subject is pasted with rounded corners and hangs over the bottom edge.
C9_Witness ==
    /\ AfterPaste
    /\ subject.radius > 0
    /\ subject.phone_rect[2] + subject.phone_rect[4] > canvasImage.h
    /\ subject_at(canvasImage, subject,
                  subject.phone_rect[1] + subject.radius, subject.phone_rect[2])
    /\ ~subject_at(canvasImage, subject, subject.phone_rect[1], subject.phone_rect[2])

(***************************************************************************)
(* apply_accent_vignette's bottom-gradient loop on its own: for a canvas of *)
(* height vh, one row per step, the alpha of each row drawn kept in vrow.  *)
(***************************************************************************)
InitVignette ==
    /\ config = CHOOSE c \in Configs : TRUE
    /\ rawFiles = [f \in FileNames |-> "absent"]
    /\ bgAsset = "absent"
    /\ bg_cache = EmptyCache
    /\ outputs = [f \in FileNames |-> NoImage]
    /\ stdout = <<>>
    /\ status = "running"
    /\ error = "none"
    /\ si = 1
    /\ di = 1
    /\ pc = "bottom_gradient"
    /\ raw = NoImage
    /\ canvas = NoRef
    /\ canvasObj = NoImage
    /\ subject = NoSubject
    /\ bgCalls = <<>>
    /\ vh \in MinHeight..MaxHeight
    /\ vy = 0
    /\ vrow = <<>>
    /\ fcall = NoCall

\* for y in range(h): t = ...; alpha = ...; draw.line(..., fill=(*accent, alpha))
bottom_gradient_row ==
    /\ Running("bottom_gradient")
    /\ vy < vh
    /\ vrow' = Append(vrow, vignette_alpha(vh, vy, VignetteOpacity))
    /\ vy' = vy + 1
    /\ UNCHANGED <<config, rawFiles, bgAsset, bg_cache, outputs, stdout, status,
                   error, si, di, pc, raw, canvas, canvasObj, subject, bgCalls, vh,
                   fcall>>

NextVignette == bottom_gradient_row

SpecVignette == InitVignette /\ [][NextVignette]_vars

(***************************************************************************)
(* C10 as claimed: in the bottom gradient of a canvas of height h, the     *)
(* alpha of every row y < 0.4 h is 0, the alpha never decreases from one   *)
(* row to the next, and the last row drawn, the bottom edge of the canvas, *)
(* has the full strength int(255 * opacity).                               *)
(***************************************************************************)
C10_BottomGradientReachesFull ==
    /\ \A y \in 0..(Len(vrow) - 1) : 10 * y < 4 * vh => vrow[y + 1] = 0
    /\ \A y \in 1..(Len(vrow) - 1) : vrow[y] <= vrow[y + 1]
    /\ (vh > 0 /\ Len(vrow) = vh) => vrow[vh] = (255 * VignetteOpacity) \div 100

(***************************************************************************)
(* Function-level specifications: one drawing function called on its own,  *)
(* on arguments drawn from bounded sets, its loop one iteration per step.  *)
(***************************************************************************)
mainVars ==
    <<config, rawFiles, bgAsset, bg_cache, outputs, stdout, status, error,
      si, di, pc, raw, canvas, canvasObj, subject, bgCalls>>

\* No run of main is in progress; `stage` names the function under study.
Idle(stage) ==
    /\ config = CHOOSE c \in Configs : TRUE
    /\ rawFiles = [f \in FileNames |-> "absent"]
    /\ bgAsset = "absent"
    /\ bg_cache = EmptyCache
    /\ outputs = [f \in FileNames |-> NoImage]
    /\ stdout = <<>>
    /\ status = "running"
    /\ error = "none"
    /\ si = 1
    /\ di = 1
    /\ pc = stage
    /\ raw = NoImage
    /\ canvas = NoRef
    /\ canvasObj = NoImage
    /\ subject = NoSubject
    /\ bgCalls = <<>>
    /\ vh = 0
    /\ vy = 0
    /\ vrow = <<>>

(***************************************************************************)
(* apply_accent_glow's ellipse loop.                                       *)
(***************************************************************************)
\* steps = 80
GlowSteps == 80
\* Largest side of the small subject rectangles the loop is run for.
MaxGlowSide == 8

\* Mutant of glow_ellipse: the alpha fades towards the centre (t taken as
\* 1 - i / steps in the alpha).
glow_ellipse_fading_inward(pw, ph, i) ==
    [i |-> i,
     rx |-> (((pw * 9) \div 10) * (GlowSteps - i)) \div GlowSteps,
     ry |-> (((ph * 7) \div 10) * (GlowSteps - i)) \div GlowSteps,
     alpha |-> (255 * 40 * (GlowSteps - i) * (GlowSteps - i))
                   \div (100 * GlowSteps * GlowSteps)]

\* Iteration i of the loop for a pw x ph rectangle: t = i / steps,
\* rx = int(glow_rx * (1.0 - t)), ry = int(glow_ry * (1.0 - t)),
\* alpha = int(255 * 0.40 * t * t).
glow_ellipse(pw, ph, i) ==
    [i |-> i,
     rx |-> (((pw * 9) \div 10) * (GlowSteps - i)) \div GlowSteps,
     ry |-> (((ph * 7) \div 10) * (GlowSteps - i)) \div GlowSteps,
     alpha |-> (255 * 40 * i * i) \div (100 * GlowSteps * GlowSteps)]

GlowSides == (1..MaxGlowSide) \cup {GlowSteps + 40}

InitGlow ==
    /\ Idle("glow_ellipses")
    /\ fcall \in { [args |-> <<pw, ph>>, i |-> 0, out |-> <<>>] :
                   pw \in GlowSides, ph \in GlowSides }

\* for i in range(steps): ...; if rx < 1 or ry < 1: continue; draw.ellipse(...)
glow_ellipse_step ==
    /\ Running("glow_ellipses")
    /\ fcall.i < GlowSteps
    /\ LET e == glow_ellipse(fcall.args[1], fcall.args[2], fcall.i)
       IN  fcall' = [fcall EXCEPT
                        !.i = @ + 1,
                        !.out = IF e.rx < 1 \/ e.ry < 1 THEN @ ELSE Append(@, e)]
    /\ UNCHANGED <<mainVars, vh, vy, vrow>>

NextGlow == glow_ellipse_step

SpecGlow == InitGlow /\ [][NextGlow]_vars

(***************************************************************************)
(* C11 as claimed: of any two ellipses painted on the glow layer, the      *)
(* outer one (painted earlier) has strictly lower alpha than the inner.    *)
(***************************************************************************)
C11_GlowAlphaStrictlyDecreasesOutward ==
    \A a, b \in 1..Len(fcall.out) :
        a < b => fcall.out[a].alpha < fcall.out[b].alpha

(***************************************************************************)
(* C11 amended: of any two ellipses painted on the glow layer, the outer   *)
(* one is at least as large in both radii and never has a higher alpha     *)
(* than the inner one; its alpha is strictly lower when the inner one is   *)
(* painted at step 32 or later, while steps 0 to 7 all paint alpha 0.      *)
(***************************************************************************)
C11_GlowAlphaNeverIncreasesOutward ==
    \A a, b \in 1..Len(fcall.out) :
        a < b =>
            /\ fcall.out[a].alpha <= fcall.out[b].alpha
            /\ fcall.out[a].rx >= fcall.out[b].rx
            /\ fcall.out[a].ry >= fcall.out[b].ry
            /\ fcall.out[b].i >= 32 => fcall.out[a].alpha < fcall.out[b].alpha
            /\ fcall.out[b].i <= 7 => fcall.out[b].alpha = 0

C11_Witness ==
    /\ pc = "glow_ellipses"
    /\ fcall.i = GlowSteps
    /\ Len(fcall.out) = GlowSteps
    /\ fcall.out[1].alpha = fcall.out[2].alpha
    /\ fcall.out[GlowSteps - 1].alpha < fcall.out[GlowSteps].alpha

(***************************************************************************)
(* add_rounded_corners called on its own.                                  *)
(***************************************************************************)
\* Largest side of the small images the function is called on.
MaxCornerSide == 8

\* The images and radii of the calls: every small size with every small
\* radius, and the 200 x 400 image with radius 20.
RoundedCalls ==
    { <<[w |-> w, h |-> h,
         layers |-> <<[layer |-> "subject", part |-> "resize_lanczos"]>>], r>> :
      w \in 1..MaxCornerSide, h \in 1..MaxCornerSide,
      r \in 0..(MaxCornerSide \div 2) }
    \cup { <<[w |-> 200, h |-> 400,
              layers |-> <<[layer |-> "subject", part |-> "resize_lanczos"]>>],
             20>> }

InitRounded ==
    /\ Idle("add_rounded_corners")
    /\ fcall \in { [args |-> a, i |-> 0, out |-> <<>>] : a \in RoundedCalls }

\* result = img.copy(); result.putalpha(mask); return result
call_add_rounded_corners ==
    /\ Running("add_rounded_corners")
    /\ fcall.i = 0
    /\ fcall' = [fcall EXCEPT
                    !.i = 1,
                    !.out = <<add_rounded_corners(fcall.args[1], fcall.args[2])>>]
    /\ UNCHANGED <<mainVars, vh, vy, vrow>>

NextRounded == call_add_rounded_corners

SpecRounded == InitRounded /\ [][NextRounded]_vars

\* The alpha of pixel (x, y) of an image add_rounded_corners returned.
mask_alpha(result, x, y) ==
    rounded_mask(result.w, result.h, result.radius, x, y)

(***************************************************************************)
(* C12: add_rounded_corners returns an image of the input's size; for a    *)
(* positive radius below half of each side its alpha is 0 at pixel (0,0)   *)
(* and 255 at every pixel at least `radius` away from all four edges; for  *)
(* 200 x 400 and radius 20, (0,0) is transparent and (100,200) is opaque.  *)
(* The call leaves the input image as it was.                              *)
(***************************************************************************)
C12_RoundedMaskCorrect ==
    /\ [](pc = "add_rounded_corners" /\ fcall.i = 1 =>
            LET img == fcall.args[1]
                radius == fcall.args[2]
                result == fcall.out[1]
            IN  /\ result.w = img.w
                /\ result.h = img.h
                /\ (0 < radius /\ 2 * radius < img.w /\ 2 * radius < img.h) =>
                      /\ mask_alpha(result, 0, 0) = 0
                      /\ \A x \in radius..(img.w - 1 - radius),
                            y \in radius..(img.h - 1 - radius) :
                             mask_alpha(result, x, y) = 255
                /\ (img.w = 200 /\ img.h = 400 /\ radius = 20) =>
                      /\ mask_alpha(result, 0, 0) = 0
                      /\ mask_alpha(result, 100, 200) = 255)
    /\ [][pc = "add_rounded_corners" => fcall'.args = fcall.args]_vars

C12_Witness ==
    /\ pc = "add_rounded_corners"
    /\ fcall.i = 1
    /\ fcall.args[1].w = 200
    /\ fcall.args[1].h = 400
    /\ fcall.args[2] = 20
    /\ fcall.out[1].radius = 20

(***************************************************************************)
(* add_drop_shadow called on its own, one statement per step.              *)
(***************************************************************************)
\* Largest side, shadow offset and shadow blur of the calls.
MaxShadowSide == 4
MaxShadowOffset == 3
MaxShadowBlur == 3

\* Mutant of add_drop_shadow_ops: the subject is pasted before the blur.
add_drop_shadow_ops_blur_last(img, offset, blur) ==
    << [op |-> "new", at |-> <<0, 0>>,
        size |-> <<img.w + blur * 4, img.h + blur * 4>>, radius |-> 0],
       [op |-> "paste_shadow_layer",
        at |-> <<blur * 2 + offset, blur * 2 + offset>>,
        size |-> <<img.w, img.h>>, radius |-> 0],
       [op |-> "paste_img", at |-> <<blur * 2, blur * 2>>,
        size |-> <<img.w, img.h>>, radius |-> img.radius],
       [op |-> "blur", at |-> <<0, 0>>,
        size |-> <<img.w + blur * 4, img.h + blur * 4>>, radius |-> blur] >>

\* The statements of add_drop_shadow that make or change `shadow`, in the
\* order the function runs them: Image.new(shadow_size), the paste of the
\* black shadow_layer, the GaussianBlur filter, the paste of img through its
\* own alpha.
add_drop_shadow_ops(img, offset, blur) ==
    << [op |-> "new", at |-> <<0, 0>>,
        size |-> <<img.w + blur * 4, img.h + blur * 4>>, radius |-> 0],
       [op |-> "paste_shadow_layer",
        at |-> <<blur * 2 + offset, blur * 2 + offset>>,
        size |-> <<img.w, img.h>>, radius |-> 0],
       [op |-> "blur", at |-> <<0, 0>>,
        size |-> <<img.w + blur * 4, img.h + blur * 4>>, radius |-> blur],
       [op |-> "paste_img", at |-> <<blur * 2, blur * 2>>,
        size |-> <<img.w, img.h>>, radius |-> img.radius] >>

\* The subjects, offsets and blurs of the calls.
ShadowCalls ==
    { <<add_rounded_corners(
           [w |-> w, h |-> h,
            layers |-> <<[layer |-> "subject", part |-> "resize_lanczos"]>>],
           r), offset, blur>> :
      w \in 1..MaxShadowSide, h \in 1..MaxShadowSide, r \in 0..1,
      offset \in 0..MaxShadowOffset, blur \in 0..MaxShadowBlur }

InitShadow ==
    /\ Idle("add_drop_shadow")
    /\ fcall \in { [args |-> a, i |-> 0, out |-> <<>>] : a \in ShadowCalls }

\* The next statement of add_drop_shadow.
add_drop_shadow_step ==
    /\ Running("add_drop_shadow")
    /\ LET ops == add_drop_shadow_ops(fcall.args[1], fcall.args[2], fcall.args[3])
       IN  /\ fcall.i < Len(ops)
           /\ fcall' = [fcall EXCEPT !.i = @ + 1,
                                     !.out = Append(@, ops[fcall.i + 1])]
    /\ UNCHANGED <<mainVars, vh, vy, vrow>>

NextShadow == add_drop_shadow_step

SpecShadow == InitShadow /\ [][NextShadow]_vars

\* `shadow` as add_drop_shadow has built it so far: its size, and the places
\* of what was pasted on it.
shadow_so_far(ops) ==
    [size |-> ops[1].size,
     pasted |-> { [op |-> ops[k].op, at |-> ops[k].at, size |-> ops[k].size] :
                  k \in { j \in 1..Len(ops) :
                            ops[j].op \in {"paste_shadow_layer", "paste_img"} } }]

(***************************************************************************)
(* C13: add_drop_shadow returns an image 4*blur wider and 4*blur higher    *)
(* than the subject, with the subject pasted at (2*blur, 2*blur) and the   *)
(* black shadow layer at that origin shifted by (offset, offset); the blur *)
(* runs after the shadow layer is pasted and before the subject is, so no  *)
(* subject pixel is blurred.                                               *)
(***************************************************************************)
C13_DropShadowGeometryAndOrder ==
    pc = "add_drop_shadow" =>
        LET img == fcall.args[1]
            offset == fcall.args[2]
            blur == fcall.args[3]
            ops == fcall.out
            ret == add_drop_shadow(img, offset, blur)
        IN  /\ \A a, b \in 1..Len(ops) :
                   /\ (ops[a].op = "paste_img" /\ ops[b].op = "blur") => b < a
                   /\ (ops[a].op = "paste_shadow_layer" /\ ops[b].op = "blur")
                          => a < b
            /\ fcall.i = 4 =>
                   /\ shadow_so_far(ops).size = <<img.w + 4 * blur, img.h + 4 * blur>>
                   /\ shadow_so_far(ops).pasted =
                         { [op |-> "paste_img", at |-> <<2 * blur, 2 * blur>>,
                            size |-> <<img.w, img.h>>],
                           [op |-> "paste_shadow_layer",
                            at |-> <<2 * blur + offset, 2 * blur + offset>>,
                            size |-> <<img.w, img.h>>] }
                   /\ \E b \in 1..Len(ops) : ops[b].op = "blur" /\ ops[b].radius = blur
                   /\ <<ret.w, ret.h>> = shadow_so_far(ops).size
                   /\ <<ret.img_x, ret.img_y>> = <<2 * blur, 2 * blur>>
                   /\ <<ret.paste_x, ret.paste_y>> = <<ret.img_x + offset, ret.img_y + offset>>
                   /\ <<ret.img_w, ret.img_h>> = <<img.w, img.h>>

C13_Witness ==
    /\ pc = "add_drop_shadow"
    /\ fcall.i = 4
    /\ fcall.args[2] > 0
    /\ fcall.args[3] > 0
    /\ fcall.out[3].op = "blur"
    /\ fcall.out[4].op = "paste_img"

(***************************************************************************)
(* apply_scan_lines called on its own, one line per step.                  *)
(***************************************************************************)
\* Largest width and height of the canvases the function is called on.
MaxScanWidth == 4
MaxScanHeight == 16

\* Mutant of next_scan_row: the rows drift by one more row each time.
next_scan_row_drift(y) == y + ScanSpacing + 1

\* range(0, h, spacing): the row after row y.
next_scan_row(y) == y + ScanSpacing

\* draw.line([(0, y), (w, y)], fill=(0, 0, 0, alpha)), alpha = int(255 * opacity)
scan_line(w, y) ==
    [y |-> y, x0 |-> 0, x1 |-> w, alpha |-> (255 * ScanOpacity) \div 100]

\* The alpha of pixel (x, y) of the `scan` layer, which starts transparent,
\* after the lines drawn on it; a line replaces the pixels it covers.
RECURSIVE scan_alpha(_, _, _)
scan_alpha(lines, x, y) ==
    IF lines = <<>> THEN 0
    ELSE LET l == lines[Len(lines)]
         IN  IF l.y = y /\ l.x0 <= x /\ x <= l.x1 THEN l.alpha
             ELSE scan_alpha(SubSeq(lines, 1, Len(lines) - 1), x, y)

\* Image.alpha_composite on one pixel: a transparent layer pixel leaves the
\* canvas pixel as it is, any other one blends black over it.
over_pixel(canvas_pixel, layer_alpha) ==
    IF layer_alpha = 0 THEN canvas_pixel
    ELSE [canvas_pixel EXCEPT !.black = layer_alpha]

\* Pixel (x, y) of a canvas of the calls: its own value, no black over it.
canvas_pixel_at(x, y) == [under |-> <<x, y>>, black |-> 0]

\* The canvases of the calls.
ScanCanvases ==
    { [w |-> w, h |-> h, layers |-> <<[layer |-> "background", part |-> "asset_lanczos"]>>] :
      w \in 1..MaxScanWidth, h \in 1..MaxScanHeight }

InitScan ==
    /\ Idle("apply_scan_lines")
    /\ fcall \in { [args |-> <<c>>, i |-> 0, out |-> <<>>] : c \in ScanCanvases }

\* for y in range(0, h, spacing): draw.line(...)
scan_line_step ==
    /\ Running("apply_scan_lines")
    /\ canvasObj = NoImage
    /\ fcall.i < fcall.args[1].h
    /\ fcall' = [fcall EXCEPT !.i = next_scan_row(@),
                              !.out = Append(@, scan_line(fcall.args[1].w, fcall.i))]
    /\ UNCHANGED <<mainVars, vh, vy, vrow>>

\* return Image.alpha_composite(canvas, scan)
scan_composite ==
    /\ Running("apply_scan_lines")
    /\ canvasObj = NoImage
    /\ fcall.i >= fcall.args[1].h
    /\ canvasObj' = apply_scan_lines(fcall.args[1])
    /\ UNCHANGED <<config, rawFiles, bgAsset, bg_cache, outputs, stdout, status,
                   error, si, di, pc, raw, canvas, subject, bgCalls,
                   vh, vy, vrow, fcall>>

NextScan == scan_line_step \/ scan_composite

SpecScan == InitScan /\ [][NextScan]_vars

\* Pixel (x, y) of the image apply_scan_lines returns.
scanned_pixel(x, y) == over_pixel(canvas_pixel_at(x, y), scan_alpha(fcall.out, x, y))

(***************************************************************************)
(* C14: apply_scan_lines darkens row y iff y is a multiple of `spacing`,   *)
(* counted from row 0; such a row is darkened over the full width with the *)
(* one alpha int(255 * opacity); every pixel of every other row is the     *)
(* pixel of the input canvas, and the image keeps the canvas's size.       *)
(***************************************************************************)
C14_ScanLinesOnMultiplesOfSpacing ==
    (pc = "apply_scan_lines" /\ canvasObj # NoImage) =>
        LET c == fcall.args[1]
            top == canvasObj.layers[Len(canvasObj.layers)]
        IN  /\ canvasObj.w = c.w
            /\ canvasObj.h = c.h
            /\ top.layer = "scan_lines"
            /\ \A x \in 0..(c.w - 1), y \in 0..(c.h - 1) :
                   IF y % ScanSpacing = 0
                   THEN /\ scanned_pixel(x, y) =
                              [under |-> <<x, y>>,
                               black |-> (255 * ScanOpacity) \div 100]
                        /\ scanned_pixel(x, y).black = top.alpha
                        /\ scanned_pixel(x, y) # canvas_pixel_at(x, y)
                   ELSE scanned_pixel(x, y) = canvas_pixel_at(x, y)

C14_Witness ==
    /\ pc = "apply_scan_lines"
    /\ canvasObj # NoImage
    /\ fcall.args[1].h > 2 * ScanSpacing + 1
    /\ Len(fcall.out) = 3
    /\ scanned_pixel(fcall.args[1].w - 1, 2 * ScanSpacing).black = 25
    /\ scanned_pixel(0, 2 * ScanSpacing + 1) = canvas_pixel_at(0, 2 * ScanSpacing + 1)

(***************************************************************************)
(* The gradient fallback of create_background on its own, one row per      *)
(* step.                                                                   *)
(***************************************************************************)
\* Largest width and height of the backgrounds drawn.
MaxGradientWidth == 2
MaxGradientHeight == 6

\* Mutant of gradient_channel: the interpolation starts from the bottom colour.
gradient_channel_from_bottom(topc, bottomc, height, y) ==
    (bottomc * height + (topc - bottomc) * y) \div height

\* int(top[k] + (bottom[k] - top[k]) * ratio) with ratio = y / height: the
\* value is never negative, so int() is the floor of
\* (top * height + (bottom - top) * y) / height.  (In floating point the
\* result is that floor for every input drawn here; for other inputs it can
\* be one less where the exact value is a whole number.)
gradient_channel(topc, bottomc, height, y) ==
    (topc * height + (bottomc - topc) * y) \div height

\* draw.line([(0, y), (width, y)], fill=(r, g, b, 255))
gradient_row(top, bottom, width, height, y) ==
    [y |-> y, x0 |-> 0, x1 |-> width,
     fill |-> <<gradient_channel(top[1], bottom[1], height, y),
                gradient_channel(top[2], bottom[2], height, y),
                gradient_channel(top[3], bottom[3], height, y),
                255>>]

\* Configured colours: the string in the configuration and the colour it
\* denotes.
GradientColours ==
    { [hex |-> <<"#", "0", "a", "0", "a", "1", "a">>, rgb |-> <<10, 10, 26>>],
      [hex |-> <<"#", "0", "5", "0", "5", "0", "f">>, rgb |-> <<5, 5, 15>>],
      [hex |-> <<"#", "F", "F", "8", "0", "0", "0">>, rgb |-> <<255, 128, 0>>],
      [hex |-> <<"0", "0", "0", "0", "0", "0">>, rgb |-> <<0, 0, 0>>] }

InitGradient ==
    /\ Idle("gradient")
    /\ fcall \in { [args |-> <<width, height, top, bottom>>, i |-> 0, out |-> <<>>] :
                   width \in 1..MaxGradientWidth, height \in 1..MaxGradientHeight,
                   top \in GradientColours, bottom \in GradientColours }

\* for y in range(height): ...; draw.line(...)
gradient_row_step ==
    /\ Running("gradient")
    /\ fcall.i < fcall.args[2]
    /\ LET top == hex_to_rgb(fcall.args[3].hex)
           bottom == hex_to_rgb(fcall.args[4].hex)
       IN  fcall' = [fcall EXCEPT
                        !.i = @ + 1,
                        !.out = Append(@, gradient_row(top, bottom, fcall.args[1],
                                                       fcall.args[2], fcall.i))]
    /\ UNCHANGED <<mainVars, vh, vy, vrow>>

NextGradient == gradient_row_step

SpecGradient == InitGradient /\ [][NextGradient]_vars

\* v lies between a and b, whichever is the larger.
Between(a, v, b) == (a <= v /\ v <= b) \/ (b <= v /\ v <= a)

(***************************************************************************)
(* C15: the gradient draws every row y of [0, height) over the full width, *)
(* fully opaque; each channel is within one of the linear interpolation    *)
(* between the configured top and bottom values at ratio y / height, and   *)
(* never above it; row 0 has the top colour exactly; every channel value   *)
(* lies between the top and bottom values, and from one row to the next it *)
(* never moves away from the bottom value.                                 *)
(***************************************************************************)
C15_GradientInterpolatesTopToBottom ==
    pc = "gradient" =>
        LET width == fcall.args[1]
            height == fcall.args[2]
            top == fcall.args[3].rgb
            bottom == fcall.args[4].rgb
            rows == fcall.out
        IN  /\ Len(rows) = fcall.i
            /\ \A k \in 1..Len(rows) :
                   /\ rows[k].y = k - 1
                   /\ rows[k].x0 = 0
                   /\ rows[k].x1 >= width - 1
                   /\ rows[k].fill[4] = 255
                   /\ k = 1 => SubSeq(rows[k].fill, 1, 3) = top
                   /\ \A c \in 1..3 :
                          LET v == rows[k].fill[c]
                              exact == top[c] * height + (bottom[c] - top[c]) * (k - 1)
                          IN  /\ v * height <= exact
                              /\ exact <= (v + 1) * height
                              /\ Between(top[c], v, bottom[c])
                              /\ k > 1 => Between(rows[k - 1].fill[c], v, bottom[c])
            /\ fcall.i = height => Len(rows) = height

C15_Witness ==
    /\ pc = "gradient"
    /\ fcall.i = fcall.args[2]
    /\ fcall.args[2] = 3
    /\ fcall.args[3].rgb = <<10, 10, 26>>
    /\ fcall.args[4].rgb = <<5, 5, 15>>
    /\ fcall.out[1].fill = <<10, 10, 26, 255>>
    /\ fcall.out[3].fill = <<6, 6, 18, 255>>

(***************************************************************************)
(* C16: a skipped pair has no effect on shared state.  The step of         *)
(* composite_screenshot that finds the raw file missing returns at once:   *)
(* it leaves the background cache and every output file as they were and   *)
(* makes no create_background call, so neither the background asset nor    *)
(* the gradient configuration is read; and over a run there are never more *)
(* create_background calls, cache entries or outputs than visited pairs    *)
(* whose raw file exists.                                                  *)
(***************************************************************************)
C16_SkipLeavesSharedStateAlone ==
    /\ [][ (Running("check_raw") /\ rawFiles[file_name] = "absent") =>
              /\ bg_cache' = bg_cache
              /\ bgCalls' = bgCalls
              /\ outputs' = outputs
              /\ bgAsset' = bgAsset
              /\ rawFiles' = rawFiles
              /\ status' = "running"
              /\ pc' = "main"
              /\ stdout' = Append(stdout, <<"SKIP", file_name>>) ]_vars
    /\ [](LET present == { f \in FileNames : Called(f) /\ rawFiles[f] # "absent" }
          IN  /\ Len(bgCalls) <= Cardinality(present)
              /\ Cardinality(DOMAIN bg_cache) <= Cardinality(present)
              /\ \A f \in FileNames : outputs[f] # NoImage => f \in present)

C16_Witness ==
    /\ Running("main")
    /\ stdout # <<>>
    /\ stdout[Len(stdout)][1] = "SKIP"
    /\ bg_cache # EmptyCache
    /\ \E f \in FileNames : outputs[f] # NoImage
    /\ \E f \in FileNames :
          /\ Returned(f)
          /\ rawFiles[f] = "absent"
          /\ cache_key(config.devices[f[2]].width, config.devices[f[2]].height)
                \notin DOMAIN bg_cache

====
